---- MODULE Spec2Model ----
(***************************************************************************)
(* A model of weather_mcp.py: the three MCP tools get_weather,             *)
(* get_weather_by_coordinates and get_alerts, and the functions they are   *)
(* built from (geocode_location, get_weather_data, interpret_weather_code, *)
(* process_weather_data).                                                  *)
(*                                                                         *)
(* Python values are tagged records: None, Num(n) for a number, Str(s) for *)
(* an optional string.  A dict is a function on its keys, a list is a      *)
(* sequence.  A call ends by returning a value or by raising:              *)
(* Raise(e) stands for the exception e leaving the function.               *)
(* Latitudes and longitudes are counted in hundredths of a degree          *)
(* (3405 is 34.05); every other number stands for itself.                  *)
(***************************************************************************)
EXTENDS Integers, Sequences, FiniteSets, TLC

VARIABLES
    pc,            \* position of the running invocation
    tool,          \* the tool (or function) invoked
    args,          \* its arguments
    calls,         \* outbound calls of this invocation, with their responses
    location,      \* get_weather: what geocode_location returned
    weather_data,  \* what get_weather_data returned
    result,        \* the value the invocation returns (or the exception)
    history,       \* the tools invoked before this one, oldest first
    first          \* the first invocation that completed, as the transport saw it

vars == <<pc, tool, args, calls, location, weather_data, result, history, first>>

----------------------------------------------------------------------------
(* Bounds of the model *)

MaxHistory == 2     \* invocations completed before the one observed
MaxSeqLen == 2      \* longest daily sequence of a payload
MaxAbsDays == 100   \* get_weather_data is applied to days in -100..100
MaxCode == 110      \* interpret_weather_code is applied to codes -110..110

----------------------------------------------------------------------------
(* Python values *)

None == [kind |-> "None"]
Num(n) == [kind |-> "num", v |-> n]
Str(s) == [kind |-> "str", v |-> s]
Raise(e) == [kind |-> "raise", exc |-> e]

\* v is a record (a tagged value or a dict), never a list
IsRaise(v) == "kind" \in DOMAIN v /\ v.kind = "raise"

\* dict.get(key, default)
Get(d, key, default) == IF key \in DOMAIN d THEN d[key] ELSE default

\* truth value of an Optional[str]: None and "" are false
StrTruthy(s) == s # None /\ s.v # ""

Min(a, b) == IF a <= b THEN a ELSE b
Max(a, b) == IF a >= b THEN a ELSE b

\* str() of a float given in hundredths: 3405 -> "34.05", -11820 -> "-118.2",
\* 3400 -> "34.0"
FloatStr(h) ==
    LET a == IF h < 0 THEN -h ELSE h
        whole == a \div 100
        frac == a % 100
        digits == IF frac % 10 = 0 THEN ToString(frac \div 10)
                  ELSE IF frac < 10 THEN "0" \o ToString(frac)
                  ELSE ToString(frac)
    IN (IF h < 0 THEN "-" ELSE "") \o ToString(whole) \o "." \o digits

----------------------------------------------------------------------------
(* interpret_weather_code *)

weather_codes ==
    0 :> "Clear sky" @@
    1 :> "Mainly clear" @@ 2 :> "Partly cloudy" @@ 3 :> "Overcast" @@
    45 :> "Fog" @@ 48 :> "Depositing rime fog" @@
    51 :> "Light drizzle" @@ 53 :> "Moderate drizzle" @@ 55 :> "Dense drizzle" @@
    56 :> "Light freezing drizzle" @@ 57 :> "Dense freezing drizzle" @@
    61 :> "Slight rain" @@ 63 :> "Moderate rain" @@ 65 :> "Heavy rain" @@
    66 :> "Light freezing rain" @@ 67 :> "Heavy freezing rain" @@
    71 :> "Slight snow fall" @@ 73 :> "Moderate snow fall" @@ 75 :> "Heavy snow fall" @@
    77 :> "Snow grains" @@
    80 :> "Slight rain showers" @@ 81 :> "Moderate rain showers" @@
    82 :> "Violent rain showers" @@
    85 :> "Slight snow showers" @@ 86 :> "Heavy snow showers" @@
    95 :> "Thunderstorm" @@ 96 :> "Thunderstorm with slight hail" @@
    99 :> "Thunderstorm with heavy hail"

\* a lookup whose default is the description of code 0
interpret_weather_code_default0(code) ==
    IF code.kind = "num" /\ code.v \in DOMAIN weather_codes
    THEN weather_codes[code.v]
    ELSE weather_codes[0]

\* weather_codes.get(code, "Unknown")
interpret_weather_code(code) ==
    IF code.kind = "num" /\ code.v \in DOMAIN weather_codes
    THEN weather_codes[code.v]
    ELSE "Unknown"

----------------------------------------------------------------------------
(* geocode_location *)

\* the query string sent to the geocoder
geocode_query(city, state, country) ==
    city \o (IF StrTruthy(state) THEN ", " \o state.v ELSE "")
         \o (IF country # "" THEN ", " \o country ELSE "")

GeocodeRequest(city, state, country) ==
    [service |-> "geocode", query |-> geocode_query(city, state, country),
     timeout |-> 15]

\* geocode_location without its except clause
geocode_location_noexcept(found) ==
    IF found.kind = "Location"
    THEN [kind |-> "LocationCoordinates", latitude |-> found.latitude,
          longitude |-> found.longitude, location_name |-> found.address]
    ELSE found

\* what geocode_location returns when geolocator.geocode answers `found`:
\* a Location, None, or an exception, which `except Exception` absorbs
geocode_location(found) ==
    IF found.kind = "raise" THEN None
    ELSE IF found.kind = "Location"
    THEN [kind |-> "LocationCoordinates", latitude |-> found.latitude,
          longitude |-> found.longitude, location_name |-> found.address]
    ELSE None

----------------------------------------------------------------------------
(* get_weather_data *)

\* a clamp whose lower end is 0
clamp_days_from0(days) == Min(Max(0, days), 16)

\* days = min(max(1, days), 16)
clamp_days(days) == Min(Max(1, days), 16)

\* the parameters of requests.get
ForecastRequest(latitude, longitude, days) ==
    [service |-> "forecast", latitude |-> latitude, longitude |-> longitude,
     current |-> <<"temperature_2m", "relative_humidity_2m",
                   "apparent_temperature", "precipitation", "weather_code",
                   "wind_speed_10m">>,
     daily |-> <<"weather_code", "temperature_2m_max", "temperature_2m_min",
                 "precipitation_sum">>,
     timezone |-> "auto", forecast_days |-> clamp_days(days)]

\* the subclasses of requests.exceptions.RequestException the provider call
\* can end with
RequestException == {"ConnectionError", "Timeout", "HTTPError"}

\* what get_weather_data returns when requests.get / raise_for_status /
\* json end with `response`: the decoded body, or None for a RequestException
get_weather_data(response) ==
    IF response.kind = "raise"
    THEN IF response.exc \in RequestException THEN None ELSE response
    ELSE response.json

----------------------------------------------------------------------------
(* process_weather_data *)

\* pydantic's check of a `float` field: None is rejected
IsFloat(v) == v.kind = "num"

\* CurrentWeather(...): a ValidationError when a float field is None
CurrentWeather(temperature, feels_like, humidity, wind_speed, precipitation, conditions, units) ==
    IF /\ IsFloat(temperature) /\ IsFloat(feels_like) /\ IsFloat(humidity)
       /\ IsFloat(wind_speed) /\ IsFloat(precipitation)
    THEN [kind |-> "CurrentWeather", temperature |-> temperature.v,
          feels_like |-> feels_like.v, humidity |-> humidity.v,
          wind_speed |-> wind_speed.v, precipitation |-> precipitation.v,
          conditions |-> conditions, units |-> units]
    ELSE Raise("ValidationError")

\* DailyForecast(...): a ValidationError when a float field is None
DailyForecast(date, min_temp, max_temp, precipitation, conditions) ==
    IF IsFloat(min_temp) /\ IsFloat(max_temp) /\ IsFloat(precipitation)
    THEN [kind |-> "DailyForecast", date |-> date, min_temp |-> min_temp.v,
          max_temp |-> max_temp.v, precipitation |-> precipitation.v,
          conditions |-> conditions]
    ELSE Raise("ValidationError")

\* daily.get(key, [])[i] if i < len(daily.get(key, [])) else 0
\* (i counts from 1 here, from 0 in the source)
daily_value(daily, key, i) ==
    IF i <= Len(Get(daily, key, <<>>)) THEN Get(daily, key, <<>>)[i] ELSE Num(0)

\* if i < len(daily.get("weather_code", []))
daily_has_code(daily, i) == i <= Len(Get(daily, "weather_code", <<>>))

\* every field of the entry is read from temperature_2m_min
forecast_entry_mincopy(daily, i) ==
    DailyForecast(daily["time"][i],
                  daily_value(daily, "temperature_2m_min", i),
                  daily_value(daily, "temperature_2m_min", i),
                  daily_value(daily, "temperature_2m_min", i),
                  interpret_weather_code(daily["weather_code"][i]))

\* the DailyForecast of the date at index i
forecast_entry(daily, i) ==
    DailyForecast(daily["time"][i],
                  daily_value(daily, "temperature_2m_min", i),
                  daily_value(daily, "temperature_2m_max", i),
                  daily_value(daily, "precipitation_sum", i),
                  interpret_weather_code(daily["weather_code"][i]))

\* for i, date in enumerate(daily["time"]): ... forecast_list.append(...)
\* the list once the dates from index i on are added, or the exception that
\* ends the loop
RECURSIVE forecast_loop(_, _, _)
forecast_loop(daily, i, forecast_list) ==
    IF i > Len(daily["time"]) THEN [kind |-> "list", items |-> forecast_list]
    ELSE IF daily_has_code(daily, i)
    THEN LET entry == forecast_entry(daily, i)
         IN IF IsRaise(entry) THEN entry
            ELSE forecast_loop(daily, i + 1, Append(forecast_list, entry))
    ELSE forecast_loop(daily, i + 1, forecast_list)

\* current.get(key)
current_value(current, key) == Get(current, key, None)

process_weather_data(data, location_name) ==
    IF IsRaise(data) THEN data
    ELSE IF data = None \/ DOMAIN data = {} THEN None
    ELSE LET current == Get(data, "current", <<>>)
             current_units == Get(data, "current_units", <<>>)
         IN
         IF DOMAIN current = {} THEN None
         ELSE LET current_weather ==
                      CurrentWeather(
                          current_value(current, "temperature_2m"),
                          current_value(current, "apparent_temperature"),
                          current_value(current, "relative_humidity_2m"),
                          current_value(current, "wind_speed_10m"),
                          current_value(current, "precipitation"),
                          interpret_weather_code(
                              Get(current, "weather_code", Num(0))),
                          [temperature |-> Get(current_units, "temperature_2m", "°C"),
                           feels_like |-> Get(current_units, "apparent_temperature", "°C"),
                           humidity |-> Get(current_units, "relative_humidity_2m", "%"),
                           wind_speed |-> Get(current_units, "wind_speed_10m", "km/h"),
                           precipitation |-> Get(current_units, "precipitation", "mm")])
                  daily == Get(data, "daily", <<>>)
                  forecast_list ==
                      IF DOMAIN daily # {} /\ "time" \in DOMAIN daily
                      THEN forecast_loop(daily, 1, <<>>)
                      ELSE [kind |-> "list", items |-> <<>>]
              IN IF IsRaise(current_weather) THEN current_weather
                 ELSE IF IsRaise(forecast_list) THEN forecast_list
                 ELSE [kind |-> "WeatherResponse",
                       location |-> location_name,
                       coordinates |-> <<Get(data, "latitude", None),
                                         Get(data, "longitude", None)>>,
                       current |-> current_weather,
                       forecast |-> forecast_list.items]

----------------------------------------------------------------------------
(* The tools *)

\* the WeatherResponse get_weather returns when geocoding found nothing
NotFoundResponse(city, state, country) ==
    LET error_message ==
            "Could not find coordinates for " \o city
            \o (IF StrTruthy(state) THEN ", " \o state.v ELSE "")
            \o ", " \o country
            \o ". Please check the location name and try again."
    IN [kind |-> "WeatherResponse",
        location |-> "Error: " \o error_message,
        coordinates |-> <<Num(0), Num(0)>>,
        current |-> [kind |-> "CurrentWeather", temperature |-> 0,
                     feels_like |-> 0, humidity |-> 0, wind_speed |-> 0,
                     precipitation |-> 0, conditions |-> "Location not found",
                     units |-> <<>>],
        forecast |-> <<>>]

\* a get_weather that falls back to Los Angeles when geocoding found nothing
get_weather_located_default_la(loc, city, state, country, days) ==
    IF IsRaise(loc) THEN [next |-> "return", value |-> loc]
    ELSE IF loc = None
    THEN [next |-> "fetch", request |-> ForecastRequest(3405, -11824, days)]
    ELSE [next |-> "fetch",
          request |-> ForecastRequest(loc.latitude, loc.longitude, days)]

\* a get_weather whose error message always names the state
get_weather_located_state_always(loc, city, state, country, days) ==
    IF IsRaise(loc) THEN [next |-> "return", value |-> loc]
    ELSE IF loc = None
    THEN [next |-> "return",
          value |-> NotFoundResponse(city, IF state = None THEN Str("None") ELSE state,
                                     country)]
    ELSE [next |-> "fetch",
          request |-> ForecastRequest(loc.latitude, loc.longitude, days)]

\* get_weather once geocode_location has returned loc: return the error
\* response, or go on to call the forecast provider
get_weather_located(loc, city, state, country, days) ==
    IF IsRaise(loc) THEN [next |-> "return", value |-> loc]
    ELSE IF loc = None
    THEN [next |-> "return", value |-> NotFoundResponse(city, state, country)]
    ELSE [next |-> "fetch",
          request |-> ForecastRequest(loc.latitude, loc.longitude, days)]

\* the label get_weather_by_coordinates gives its response
coordinates_label(latitude, longitude) ==
    "coordinates (" \o FloatStr(latitude) \o ", " \o FloatStr(longitude) \o ")"

\* a get_alerts that counts the invocations made so far
get_alerts_counting(state) ==
    [result |-> "No active weather alerts for " \o state, state |-> state,
     alerts_count |-> Len(history)]

get_alerts(state) ==
    [result |-> "No active weather alerts for " \o state, state |-> state,
     alerts_count |-> 0]

----------------------------------------------------------------------------
(* What the tools are invoked with, and what the providers answer *)

Cities == {"Paris", "Nowhereville"}
States == {None, Str(""), Str("CA")}
Countries == {"USA", ""}
DaysArgs == {0, 7, 100}
Latitudes == {3405}
Longitudes == {-11824, 200}
AlertStates == {"CA", "NY"}

\* geolocator.geocode: a match, no match, or an exception
GeocoderAnswers ==
    { [kind |-> "Location", latitude |-> 4885, longitude |-> 235,
       address |-> "Paris, Ile-de-France, France"],
      None,
      Raise("GeocoderTimedOut"), Raise("GeocoderServiceError"),
      Raise("ValueError") }

FullCurrent ==
    [temperature_2m |-> Num(21), apparent_temperature |-> Num(19),
     relative_humidity_2m |-> Num(55), wind_speed_10m |-> Num(12),
     precipitation |-> Num(1), weather_code |-> Num(3)]

FullUnits ==
    [temperature_2m |-> "°F", apparent_temperature |-> "°F",
     relative_humidity_2m |-> "%", wind_speed_10m |-> "mph",
     precipitation |-> "inch"]

\* n days of every daily field
FullDaily(n) ==
    [time |-> [i \in 1..n |-> "day" \o ToString(i)],
     weather_code |-> [i \in 1..n |-> Num(3)],
     temperature_2m_min |-> [i \in 1..n |-> Num(10 + i)],
     temperature_2m_max |-> [i \in 1..n |-> Num(20 + i)],
     precipitation_sum |-> [i \in 1..n |-> Num(30 + i)]]

FullPayload ==
    [latitude |-> Num(3405), longitude |-> Num(-11824), current |-> FullCurrent,
     current_units |-> FullUnits, daily |-> FullDaily(MaxSeqLen)]

\* requests.get(...).json(): a full body, a body with no current section, a
\* body whose current section lacks the humidity, or a RequestException
ProviderAnswers ==
    { [kind |-> "ok", json |-> FullPayload],
      [kind |-> "ok", json |-> [latitude |-> Num(3405), longitude |-> Num(-11824)]],
      [kind |-> "ok",
       json |-> [FullPayload EXCEPT
                    !.current = [k \in DOMAIN FullCurrent \ {"relative_humidity_2m"}
                                    |-> FullCurrent[k]]]],
      Raise("ConnectionError"), Raise("Timeout"), Raise("HTTPError") }

----------------------------------------------------------------------------
(* The server: one invocation at a time, each a blocking sequence of calls *)

Idle ==
    /\ pc = "idle" /\ tool = "none" /\ args = None /\ calls = <<>>
    /\ location = None /\ weather_data = None /\ result = None

Init == Idle /\ history = <<>> /\ first = None

\* the last outbound call, which is awaiting its response
Answered(response) ==
    [calls EXCEPT ![Len(calls)] = [request |-> calls[Len(calls)].request,
                                   response |-> response]]

Pending(request) == [request |-> request, response |-> [kind |-> "pending"]]

\* get_weather is invoked and calls the geocoder
CallGetWeather(city, state, country, days) ==
    /\ pc = "idle" /\ Len(history) < MaxHistory
    /\ tool' = "get_weather"
    /\ args' = [city |-> city, state |-> state, country |-> country, days |-> days]
    /\ calls' = <<Pending(GeocodeRequest(city, state, country))>>
    /\ pc' = "geocoding"
    /\ UNCHANGED <<location, weather_data, result, history, first>>

\* the geocoder answers; get_weather returns the error response or calls the
\* forecast provider
GeocoderAnswer(found) ==
    /\ pc = "geocoding"
    /\ LET loc == geocode_location(found)
           step == get_weather_located(loc, args.city, args.state, args.country,
                                       args.days)
       IN /\ location' = loc
          /\ IF step.next = "return"
             THEN /\ result' = step.value
                  /\ calls' = Answered(found)
                  /\ pc' = "done"
             ELSE /\ result' = result
                  /\ calls' = Append(Answered(found), Pending(step.request))
                  /\ pc' = "fetching"
    /\ UNCHANGED <<tool, args, weather_data, history, first>>

\* get_weather_by_coordinates is invoked and calls the forecast provider
CallGetWeatherByCoordinates(latitude, longitude, days) ==
    /\ pc = "idle" /\ Len(history) < MaxHistory
    /\ tool' = "get_weather_by_coordinates"
    /\ args' = [latitude |-> latitude, longitude |-> longitude, days |-> days]
    /\ calls' = <<Pending(ForecastRequest(latitude, longitude, days))>>
    /\ pc' = "fetching"
    /\ UNCHANGED <<location, weather_data, result, history, first>>

\* the forecast provider answers; the tool returns process_weather_data's value
ProviderAnswer(response) ==
    /\ pc = "fetching"
    /\ LET data == get_weather_data(response)
           location_name ==
               IF tool = "get_weather" THEN location.location_name
               ELSE coordinates_label(args.latitude, args.longitude)
       IN /\ weather_data' = data
          /\ result' = process_weather_data(data, location_name)
    /\ calls' = Answered(response)
    /\ pc' = "done"
    /\ UNCHANGED <<tool, args, location, history, first>>

\* get_alerts is invoked and returns
CallGetAlerts(state) ==
    /\ pc = "idle" /\ Len(history) < MaxHistory
    /\ tool' = "get_alerts"
    /\ args' = [state |-> state]
    /\ result' = get_alerts(state)
    /\ pc' = "done"
    /\ UNCHANGED <<calls, location, weather_data, history, first>>

\* the result is handed to the transport; the server is ready for the next
\* invocation
Return ==
    /\ pc = "done"
    /\ history' = Append(history, tool)
    /\ first' = IF first = None
                THEN [tool |-> tool, args |-> args, calls |-> calls, result |-> result]
                ELSE first
    /\ pc' = "idle" /\ tool' = "none" /\ args' = None /\ calls' = <<>>
    /\ location' = None /\ weather_data' = None /\ result' = None

Next ==
    \/ \E city \in Cities, state \in States, country \in Countries, days \in DaysArgs :
           CallGetWeather(city, state, country, days)
    \/ \E found \in GeocoderAnswers : GeocoderAnswer(found)
    \/ \E latitude \in Latitudes, longitude \in Longitudes, days \in DaysArgs :
           CallGetWeatherByCoordinates(latitude, longitude, days)
    \/ \E response \in ProviderAnswers : ProviderAnswer(response)
    \/ \E state \in AlertStates : CallGetAlerts(state)
    \/ Return

Spec == Init /\ [][Next]_vars

----------------------------------------------------------------------------
(* get_weather_data on its own: every days argument, every provider answer *)

InitFetch ==
    /\ pc = "call" /\ tool = "get_weather_data"
    /\ \E latitude \in Latitudes, longitude \in Longitudes,
          days \in -MaxAbsDays..MaxAbsDays :
           args = [latitude |-> latitude, longitude |-> longitude, days |-> days]
    /\ calls = <<>> /\ location = None /\ weather_data = None /\ result = None
    /\ history = <<>> /\ first = None

\* the request is built and sent
SendForecastRequest ==
    /\ pc = "call" /\ tool = "get_weather_data"
    /\ calls' = <<Pending(ForecastRequest(args.latitude, args.longitude, args.days))>>
    /\ pc' = "fetching"
    /\ UNCHANGED <<tool, args, location, weather_data, result, history, first>>

\* the provider answers and get_weather_data returns
ReceiveForecast(response) ==
    /\ pc = "fetching" /\ tool = "get_weather_data"
    /\ calls' = Answered(response)
    /\ weather_data' = get_weather_data(response)
    /\ result' = weather_data'
    /\ pc' = "done"
    /\ UNCHANGED <<tool, args, location, history, first>>

NextFetch ==
    \/ SendForecastRequest
    \/ \E response \in ProviderAnswers : ReceiveForecast(response)

SpecFetch == InitFetch /\ [][NextFetch]_vars

----------------------------------------------------------------------------
(* interpret_weather_code on its own: every code in -MaxCode..MaxCode, and None *)

InitCodes ==
    /\ pc = "call" /\ tool = "interpret_weather_code"
    /\ \E code \in {None} \cup {Num(n) : n \in -MaxCode..MaxCode} :
           args = [code |-> code]
    /\ calls = <<>> /\ location = None /\ weather_data = None /\ result = None
    /\ history = <<>> /\ first = None

Interpret ==
    /\ pc = "call" /\ tool = "interpret_weather_code"
    /\ result' = Str(interpret_weather_code(args.code))
    /\ pc' = "done"
    /\ UNCHANGED <<tool, args, calls, location, weather_data, history, first>>

NextCodes == Interpret

SpecCodes == InitCodes /\ [][NextCodes]_vars

----------------------------------------------------------------------------
(* process_weather_data on its own, over partial payloads *)

\* an optional dict entry: <<>> when the key is absent, <<value>> when present
Opt(S) == {<<>>} \cup {<<x>> : x \in S}

\* the dict holding the entries of c that are present
MakeDict(c) == [k \in {key \in DOMAIN c : c[key] # <<>>} |-> c[k][1]]

\* the dict d without the keys outside K
Restrict(d, K) == [k \in K |-> d[k]]

\* the lists of length 0..MaxSeqLen whose element at index i is Num(base + i)
NumLists(base) == {[i \in 1..n |-> Num(base + i)] : n \in 0..MaxSeqLen}

\* the same lists with any of their elements replaced by a JSON null
NullableLists(base) ==
    UNION {{[i \in 1..n |-> IF i \in nulls THEN None ELSE Num(base + i)] :
                nulls \in SUBSET (1..n)} : n \in 0..MaxSeqLen}

DateLists == {[i \in 1..n |-> "day" \o ToString(i)] : n \in 0..MaxSeqLen}

\* the lists of length 0..MaxSeqLen of the codes 3 (documented), null and
\* 4 (not documented), in turn
CodeLists ==
    {[i \in 1..n |-> IF i % 3 = 1 THEN Num(3) ELSE IF i % 3 = 2 THEN None ELSE Num(4)] :
        n \in 0..MaxSeqLen}

DailySections ==
    {MakeDict(c) : c \in [time : Opt(DateLists),
                          weather_code : Opt(CodeLists),
                          temperature_2m_min : Opt(NumLists(10)),
                          temperature_2m_max : Opt(NumLists(20)),
                          precipitation_sum : Opt(NullableLists(30))]}

CurrentSections == {Restrict(FullCurrent, K) : K \in SUBSET DOMAIN FullCurrent}

UnitSections == {Restrict(FullUnits, K) : K \in SUBSET DOMAIN FullUnits}

\* payloads that differ in their current and current_units sections
CurrentPayloads ==
    {MakeDict([latitude |-> <<Num(3405)>>, longitude |-> <<Num(-11824)>>,
               current |-> c, current_units |-> u, daily |-> <<FullDaily(1)>>]) :
        c \in Opt(CurrentSections), u \in Opt(UnitSections)}

\* payloads that differ in their daily section
DailyPayloads ==
    {MakeDict([latitude |-> <<Num(3405)>>, longitude |-> <<Num(-11824)>>,
               current |-> <<FullCurrent>>, current_units |-> <<FullUnits>>,
               daily |-> d]) :
        d \in Opt(DailySections)}

Payloads == {None, <<>>} \cup CurrentPayloads \cup DailyPayloads

InitNormalize ==
    /\ pc = "call" /\ tool = "process_weather_data"
    /\ \E data \in Payloads : args = [data |-> data, location_name |-> "Paris, France"]
    /\ calls = <<>> /\ location = None /\ weather_data = None /\ result = None
    /\ history = <<>> /\ first = None

Normalize ==
    /\ pc = "call" /\ tool = "process_weather_data"
    /\ result' = process_weather_data(args.data, args.location_name)
    /\ pc' = "done"
    /\ UNCHANGED <<tool, args, calls, location, weather_data, history, first>>

NextNormalize == Normalize

SpecNormalize == InitNormalize /\ [][NextNormalize]_vars

----------------------------------------------------------------------------
(* Claims about the tools, checked under Spec *)

\* the answer of the geocoder to the invocation's first call
GeocoderSaid == calls[1].response

\* C1: when geocode_location returns None, get_weather returns (and does not
\* raise) the error response: location is "Error: Could not find coordinates
\* for <city>", then ", <state>" only when a state was given, then
\* ", <country>" and the hint; coordinates (0.0, 0.0); the five measurements
\* 0.0; conditions "Location not found"; no units; an empty forecast.
C1_NotFoundResponse ==
    (pc = "done" /\ tool = "get_weather" /\ location = None) =>
        /\ result.kind = "WeatherResponse"
        /\ result.location =
               "Error: Could not find coordinates for " \o args.city
               \o (IF args.state \in {None, Str("")} THEN "" ELSE ", " \o args.state.v)
               \o ", " \o args.country
               \o ". Please check the location name and try again."
        /\ result.coordinates = <<Num(0), Num(0)>>
        /\ result.current.temperature = 0
        /\ result.current.feels_like = 0
        /\ result.current.humidity = 0
        /\ result.current.wind_speed = 0
        /\ result.current.precipitation = 0
        /\ result.current.conditions = "Location not found"
        /\ result.current.units = <<>>
        /\ result.forecast = <<>>

\* get_weather("Nowhereville", None, "USA", 7) with no match
C1_Witness ==
    /\ pc = "done" /\ tool = "get_weather" /\ location = None
    /\ GeocoderSaid = None
    /\ args = [city |-> "Nowhereville", state |-> None, country |-> "USA", days |-> 7]
    /\ result.location = "Error: Could not find coordinates for Nowhereville, USA. Please check the location name and try again."

\* the forecast call of the invocation ended with a RequestException
FetchFailed ==
    /\ pc = "done" /\ tool \in {"get_weather", "get_weather_by_coordinates"}
    /\ calls[Len(calls)].request.service = "forecast"
    /\ calls[Len(calls)].response.kind = "raise"

\* C2: when the forecast call fails, get_weather and
\* get_weather_by_coordinates hand a WeatherResponse with no current or
\* forecast content to the transport, not an absent value and not an exception.
C2_FetchFailureResponse ==
    FetchFailed => result.kind = "WeatherResponse"

\* C7: geocode_location never raises; when the geocoder call raises it returns
\* None as for no match, and get_weather returns the same error response in
\* both cases; it returns coordinates and the geocoder's address only for a
\* match.
C7_GeocodeAbsorbsFailures ==
    (tool = "get_weather" /\ pc \in {"fetching", "done"}) =>
        /\ location.kind # "raise"
        /\ GeocoderSaid.kind = "Location" =>
               location = [kind |-> "LocationCoordinates",
                           latitude |-> GeocoderSaid.latitude,
                           longitude |-> GeocoderSaid.longitude,
                           location_name |-> GeocoderSaid.address]
        /\ GeocoderSaid.kind # "Location" =>
               /\ location = None
               /\ pc = "done"
               /\ result = NotFoundResponse(args.city, args.state, args.country)
        /\ location # None => GeocoderSaid.kind = "Location"

C7_Witness ==
    /\ pc = "done" /\ tool = "get_weather"
    /\ GeocoderSaid = Raise("GeocoderTimedOut")
    /\ location = None
    /\ result.current.conditions = "Location not found"

\* the running invocation has the tool, the arguments and the provider
\* answers of the first invocation
RepeatsFirst ==
    /\ first # None /\ first.tool = tool /\ first.args = args
    /\ first.calls = calls

\* C8: get_alerts makes no outbound call and, whatever was invoked before,
\* returns {result: "No active weather alerts for <state>", state: <state>,
\* alerts_count: 0}; and an invocation of any tool returns what an earlier
\* invocation with the same arguments and provider answers returned.
C8_AlertsStub ==
    /\ (pc = "done" /\ tool = "get_alerts") =>
           /\ result = [result |-> "No active weather alerts for " \o args.state,
                        state |-> args.state, alerts_count |-> 0]
           /\ calls = <<>>
    /\ (pc = "done" /\ RepeatsFirst) => result = first.result

\* get_alerts("CA") invoked a second time
C8_Witness ==
    /\ pc = "done" /\ tool = "get_alerts" /\ args.state = "CA"
    /\ history = <<"get_alerts">> /\ RepeatsFirst
    /\ result.result = "No active weather alerts for CA"

\* the services called so far by the invocation, in order
Services == [i \in 1..Len(calls) |-> calls[i].request.service]

\* C10: the outbound calls of an invocation are a prefix of (geocode,
\* forecast), each made once: get_weather calls the geocoder first and the
\* forecast provider only after a match; get_weather_by_coordinates makes one
\* forecast call and no geocode call; a call that failed is the last call.
C10_CallSequence ==
    /\ tool = "get_weather" =>
           /\ Services \in {<<"geocode">>, <<"geocode", "forecast">>}
           /\ Len(calls) = 2 <=> (pc \in {"fetching", "done"}
                                   /\ GeocoderSaid.kind = "Location")
    /\ tool = "get_weather_by_coordinates" => Services = <<"forecast">>
    /\ tool \in {"get_alerts", "none"} => calls = <<>>
    /\ \A i \in 1..Len(calls) :
           /\ calls[i].response.kind = "pending" =>
                  i = Len(calls) /\ pc \in {"geocoding", "fetching"}
           /\ calls[i].response.kind = "raise" => i = Len(calls) /\ pc = "done"
           /\ calls[i].response = None => i = Len(calls) /\ pc = "done"

\* a get_weather whose geocoding matched and whose forecast call failed
C10_Witness ==
    /\ pc = "done" /\ tool = "get_weather"
    /\ Services = <<"geocode", "forecast">>
    /\ calls[2].response.kind = "raise"

----------------------------------------------------------------------------
(* Claims about get_weather_data, checked under SpecFetch *)

\* C6: for every integer days, the request get_weather_data sends has
\* forecast_days in 1..16: days itself when it is in 1..16, 1 when it is
\* lower, 16 when it is higher; the request is sent whatever days is.
C6_DaysClamped ==
    (tool = "get_weather_data" /\ pc \in {"fetching", "done"}) =>
        /\ Len(calls) = 1
        /\ LET sent == calls[1].request.forecast_days
           IN /\ sent \in 1..16
              /\ args.days \in 1..16 => sent = args.days
              /\ args.days < 1 => sent = 1
              /\ args.days > 16 => sent = 16

\* days = 100 has been sent as 16
C6_Witness ==
    /\ tool = "get_weather_data" /\ pc = "done"
    /\ args.days = 100 /\ calls[1].request.forecast_days = 16

----------------------------------------------------------------------------
(* Claims about interpret_weather_code, checked under SpecCodes *)

\* the documented codes and their descriptions
Described ==
    { <<0, "Clear sky">>, <<1, "Mainly clear">>, <<2, "Partly cloudy">>,
      <<3, "Overcast">>, <<45, "Fog">>, <<48, "Depositing rime fog">>,
      <<51, "Light drizzle">>, <<53, "Moderate drizzle">>, <<55, "Dense drizzle">>,
      <<56, "Light freezing drizzle">>, <<57, "Dense freezing drizzle">>,
      <<61, "Slight rain">>, <<63, "Moderate rain">>, <<65, "Heavy rain">>,
      <<66, "Light freezing rain">>, <<67, "Heavy freezing rain">>,
      <<71, "Slight snow fall">>, <<73, "Moderate snow fall">>,
      <<75, "Heavy snow fall">>, <<77, "Snow grains">>,
      <<80, "Slight rain showers">>, <<81, "Moderate rain showers">>,
      <<82, "Violent rain showers">>, <<85, "Slight snow showers">>,
      <<86, "Heavy snow showers">>, <<95, "Thunderstorm">>,
      <<96, "Thunderstorm with slight hail">>,
      <<99, "Thunderstorm with heavy hail">> }

\* C9: interpret_weather_code is total: a code among 0, 1, 2, 3, 45, 48, 51,
\* 53, 55, 56, 57, 61, 63, 65, 66, 67, 71, 73, 75, 77, 80, 81, 82, 85, 86, 95,
\* 96, 99 gets its fixed description, every other code (negative, in between,
\* None) gets "Unknown".
C9_DescribeTotal ==
    (tool = "interpret_weather_code" /\ pc = "done") =>
        /\ result.kind = "str"
        /\ \A d \in Described :
               args.code = Num(d[1]) => result.v = d[2]
        /\ (args.code = None \/ \A d \in Described : args.code # Num(d[1])) =>
               result.v = "Unknown"

\* a code between two documented ones has been described
C9_Witness ==
    /\ tool = "interpret_weather_code" /\ pc = "done"
    /\ args.code = Num(46) /\ result.v = "Unknown"

----------------------------------------------------------------------------
(* Claims about process_weather_data, checked under SpecNormalize *)

\* the payload has a non-empty current section
HasCurrent(data) ==
    /\ data # None
    /\ "current" \in DOMAIN data
    /\ DOMAIN data["current"] # {}

DailyOf(data) == Get(data, "daily", <<>>)

\* no value of the payload's daily sequences is a JSON null
NoDailyNull(data) ==
    \A key \in DOMAIN DailyOf(data) \ {"time", "weather_code"} :
        \A i \in 1..Len(DailyOf(data)[key]) : DailyOf(data)[key][i] # None

\* the output field of each measurement key of the current section
MeasurementField ==
    [temperature_2m |-> "temperature", apparent_temperature |-> "feels_like",
     relative_humidity_2m |-> "humidity", wind_speed_10m |-> "wind_speed",
     precipitation |-> "precipitation"]

\* C3: for a payload with a non-empty current section, process_weather_data
\* does not fail over a missing measurement key: an absent measurement is 0.0
\* in the output, an absent weather code counts as code 0, an absent unit
\* falls back to its default.
C3_MissingKeysDefault ==
    (tool = "process_weather_data" /\ pc = "done" /\ HasCurrent(args.data)
     /\ NoDailyNull(args.data)) =>
        /\ result.kind = "WeatherResponse"
        /\ \A key \in DOMAIN MeasurementField :
               result.current[MeasurementField[key]] =
                   IF key \in DOMAIN args.data["current"]
                   THEN args.data["current"][key].v ELSE 0
        /\ "weather_code" \notin DOMAIN args.data["current"] =>
               result.current.conditions = "Clear sky"
        /\ LET units == Get(args.data, "current_units", <<>>)
           IN /\ "temperature_2m" \notin DOMAIN units =>
                     result.current.units.temperature = "°C"
              /\ "apparent_temperature" \notin DOMAIN units =>
                     result.current.units.feels_like = "°C"
              /\ "relative_humidity_2m" \notin DOMAIN units =>
                     result.current.units.humidity = "%"
              /\ "wind_speed_10m" \notin DOMAIN units =>
                     result.current.units.wind_speed = "km/h"
              /\ "precipitation" \notin DOMAIN units =>
                     result.current.units.precipitation = "mm"

\* the number of entries C4 states: min(len(time), len(weather_code)), 0
\* without a daily section or a time sequence
ExpectedEntries(data) ==
    IF "time" \in DOMAIN DailyOf(data)
    THEN Min(Len(DailyOf(data)["time"]),
             Len(Get(DailyOf(data), "weather_code", <<>>)))
    ELSE 0

\* C4: for a payload with a non-empty current section, the forecast of
\* process_weather_data has min(len(time), len(weather_code)) entries, entry i
\* with the date time[i] and the description of weather_code[i], in the
\* provider's order; no daily section or no time sequence gives no entry.
C4_ForecastLength ==
    (tool = "process_weather_data" /\ pc = "done" /\ HasCurrent(args.data)) =>
        /\ result.kind = "WeatherResponse"
        /\ Len(result.forecast) = ExpectedEntries(args.data)
        /\ \A i \in 1..Len(result.forecast) :
               /\ result.forecast[i].date = DailyOf(args.data)["time"][i]
               /\ LET code == DailyOf(args.data)["weather_code"][i]
                  IN result.forecast[i].conditions =
                         IF code = Num(3) THEN "Overcast" ELSE "Unknown"

\* the value C5 states for a field of entry i: the value at index i of the
\* field's own sequence, 0.0 when the sequence is missing or too short
ExpectedValue(data, key, i) ==
    IF key \in DOMAIN DailyOf(data) /\ Len(DailyOf(data)[key]) >= i
    THEN DailyOf(data)[key][i].v
    ELSE 0

\* C5: in every forecast entry that is emitted, min_temp, max_temp and
\* precipitation are each the value at the entry's index of their own daily
\* sequence, or 0.0 when that sequence is missing or too short; a short
\* sequence neither drops the entry nor changes the other two fields.
C5_EntryValues ==
    (tool = "process_weather_data" /\ pc = "done"
     /\ result.kind = "WeatherResponse") =>
        \A i \in 1..Len(result.forecast) :
            /\ result.forecast[i].min_temp =
                   ExpectedValue(args.data, "temperature_2m_min", i)
            /\ result.forecast[i].max_temp =
                   ExpectedValue(args.data, "temperature_2m_max", i)
            /\ result.forecast[i].precipitation =
                   ExpectedValue(args.data, "precipitation_sum", i)

\* two entries emitted from a payload with no temperature_2m_min, a
\* temperature_2m_max of one value and a precipitation_sum of two
C5_Witness ==
    /\ tool = "process_weather_data" /\ pc = "done"
    /\ result.kind = "WeatherResponse"
    /\ "temperature_2m_min" \notin DOMAIN DailyOf(args.data)
    /\ Len(result.forecast) = 2
    /\ result.forecast[1].min_temp = 0
    /\ result.forecast[1].max_temp = 21 /\ result.forecast[2].max_temp = 0
    /\ result.forecast[1].precipitation = 31
    /\ result.forecast[2].precipitation = 32

====
